---- MODULE Spec2Model ----
(***************************************************************************)
(* tauri-dumper: the binary-format parsers (PE, Mach-O), their pointer     *)
(* resolution, the asset scanner of Dumper and the dump loop of main.      *)
(*                                                                         *)
(* A u64 / usize value is kept exactly, as four 16-bit limbs (least        *)
(* significant first), so that 64-bit overflow, saturation and the 43-bit  *)
(* chained-fixup mask are the ones of the code.  File offsets and lengths  *)
(* the code has compared against mmap.len() are small naturals.            *)
(***************************************************************************)
EXTENDS Naturals, Sequences, FiniteSets

VARIABLES
    obj,          \* what object::File::parse reports of the input file
    mmap,         \* the mapped file, a sequence of bytes (offset o is mmap[o+1])
    debug_build,  \* the build: TRUE = overflow checks and debug assertions on
    parser,       \* the Box<dyn BinaryParser> of the Dumper, NoParser before
    pc,           \* position of the run
    fault,        \* why the run or the call ended in an error or a panic
    offset,       \* scan_assets: offset
    step,         \* scan_assets: step
    scan_end,     \* scan_assets: end
    assets,       \* scan_assets: assets (and main's list afterwards)
    probed,       \* offsets handed to try_parse_asset, in order
    dumped,       \* main: how many assets the for loop has taken
    written,      \* main: the files fs::write has written, in order
    query,        \* a raw pointer handed to resolve_pointer directly
    answer        \* what that call returned

vars == <<obj, mmap, debug_build, parser, pc, fault, offset, step, scan_end,
          assets, probed, dumped, written, query, answer>>

-----------------------------------------------------------------------------
(* 64-bit unsigned arithmetic                                              *)

Limb == 256 * 256

U64Of(n) == <<n % Limb, (n \div Limb) % Limb, 0, 0>>

U64Zero == <<0, 0, 0, 0>>

U64Max == <<Limb - 1, Limb - 1, Limb - 1, Limb - 1>>

\* the mathematical sum, as a 64-bit value and a carry out of bit 63
AddCarry(a, b) ==
    LET s1 == a[1] + b[1]
        s2 == a[2] + b[2] + (s1 \div Limb)
        s3 == a[3] + b[3] + (s2 \div Limb)
        s4 == a[4] + b[4] + (s3 \div Limb)
    IN  [val |-> <<s1 % Limb, s2 % Limb, s3 % Limb, s4 % Limb>>,
         carry |-> s4 \div Limb]

\* a - b for a >= b
U64Sub(a, b) ==
    LET d1 == a[1] - b[1] + Limb
        b1 == 1 - (d1 \div Limb)
        d2 == a[2] + Limb - b[2] - b1
        b2 == 1 - (d2 \div Limb)
        d3 == a[3] + Limb - b[3] - b2
        b3 == 1 - (d3 \div Limb)
        d4 == a[4] + Limb - b[4] - b3
    IN  <<d1 % Limb, d2 % Limb, d3 % Limb, d4 % Limb>>

U64Lt(a, b) ==
    \/ a[4] < b[4]
    \/ a[4] = b[4] /\ a[3] < b[3]
    \/ a[4] = b[4] /\ a[3] = b[3] /\ a[2] < b[2]
    \/ a[4] = b[4] /\ a[3] = b[3] /\ a[2] = b[2] /\ a[1] < b[1]

U64Le(a, b) == ~U64Lt(b, a)

\* usize::saturating_add
SaturatingAdd(a, b) ==
    LET s == AddCarry(a, b) IN IF s.carry = 1 THEN U64Max ELSE s.val

\* a value known to be below 2^31, as a natural
ToNat(a) == a[1] + a[2] * Limb

Ok(v) == [kind |-> "ok", val |-> v]

Err(e) == [kind |-> "err", why |-> e]

Panic(e) == [kind |-> "panic", why |-> e]

\* Rust's `a + b` on u64: a panic with overflow checks, a wrapped sum without
CheckedAdd(a, b, checks) ==
    LET s == AddCarry(a, b)
    IN  IF s.carry = 1 /\ checks
        THEN Panic("attempt to add with overflow")
        ELSE Ok(s.val)

-----------------------------------------------------------------------------
(* binary/mod.rs: the section table                                        *)

SectionInfo(va, fo, sz) == [virtual_address |-> va, file_offset |-> fo, size |-> sz]

IsPeRdata(s) == s.name = ".rdata" /\ s.kind = "ReadOnlyData"

IsMachoConst(s) ==
    /\ s.segment \in {"__TEXT", "__DATA_CONST", "__DATA"}
    /\ s.name = "__const"

HasFileRange(s) == s.file_range # <<>>

\* filter_map(|s| Some(SectionInfo { .. s.file_range()?.0 .. })).collect()
ToSectionInfos(secs) ==
    LET kept == SelectSeq(secs, HasFileRange)
    IN  [i \in 1..Len(kept) |->
            SectionInfo(kept[i].address, kept[i].file_range[1], kept[i].size)]

collect_pe_sections(o) == ToSectionInfos(SelectSeq(o.sections, IsPeRdata))

collect_macho_sections(o) == ToSectionInfos(SelectSeq(o.sections, IsMachoConst))

NoParser == [format |-> "none"]

NoAnswer == [kind |-> "none"]

-----------------------------------------------------------------------------
(* binary/pe.rs                                                            *)

\* a constructor that insists on a single section
PeParserNewExactlyOne(sections) ==
    IF Len(sections) # 1
    THEN Err("No .rdata section found in PE file")
    ELSE Ok([format |-> "PE", sections |-> sections])

PeParserNew(sections) ==
    IF Len(sections) = 0
    THEN Err("No .rdata section found in PE file")
    ELSE Ok([format |-> "PE", sections |-> sections])

\* a range test `va >= s.va && va < s.va + s.size`: TRUE, FALSE, or the panic
\* of the addition (which && evaluates only when the first test passed)
InSection(va, s, checks) ==
    IF U64Lt(va, s.virtual_address) THEN Ok(FALSE)
    ELSE LET bound == CheckedAdd(s.virtual_address, s.size, checks)
         IN  IF bound.kind = "panic" THEN bound
             ELSE Ok(U64Lt(va, bound.val))

\* `va - s.virtual_address + s.file_offset`
Translate(va, s, checks) ==
    CheckedAdd(U64Sub(va, s.virtual_address), s.file_offset, checks)

PeResolvePointer(p, raw_ptr, checks) ==
    IF Len(p.sections) = 0 THEN Err("No sections available")
    ELSE LET section == p.sections[1]
             inside == InSection(raw_ptr, section, checks)
         IN  IF inside.kind = "panic" THEN inside
             ELSE IF inside.val THEN Translate(raw_ptr, section, checks)
             ELSE Err("Pointer outside .rdata section bounds")

ScanRange(start, length) == [start |-> start, length |-> length]

PeScanRange(p) ==
    IF Len(p.sections) = 0 THEN Err("No sections found for scanning")
    ELSE Ok(ScanRange(p.sections[1].file_offset, p.sections[1].size))

-----------------------------------------------------------------------------
(* binary/macho.rs                                                         *)

\* 0x100000000
DefaultImageBase == <<0, 0, 1, 0>>

SegText == "__TEXT"

RECURSIVE DetectLoop(_, _, _)
\* the while-let over the load commands: has_chained_fixups and image_base
DetectLoop(cmds, has_chained_fixups, image_base) ==
    IF cmds = <<>>
    THEN [format |-> IF has_chained_fixups THEN "ChainedFixups" ELSE "Traditional",
          image_base |-> image_base]
    ELSE LET cmd == Head(cmds)
         IN  IF cmd.cmd = "LC_DYLD_CHAINED_FIXUPS"
             THEN DetectLoop(Tail(cmds), TRUE, image_base)
             ELSE IF cmd.cmd = "LC_SEGMENT_64" /\ cmd.segname = SegText
             THEN DetectLoop(Tail(cmds), has_chained_fixups, cmd.vmaddr)
             ELSE DetectLoop(Tail(cmds), has_chained_fixups, image_base)

detect_fixup_format(o) == DetectLoop(o.commands, FALSE, DefaultImageBase)

MachOParserNew(o, sections) ==
    LET d == detect_fixup_format(o)
    IN  Ok([format |-> "MachO", sections |-> sections,
            fixup_format |-> d.format, image_base |-> d.image_base])

\* raw_ptr & 0x7FFFFFFFFFF: the low 43 bits (16 + 16 + 11)
TargetMask(raw_ptr) == <<raw_ptr[1], raw_ptr[2], raw_ptr[3] % 2048, 0>>

decode_pointer(p, raw_ptr, checks) ==
    IF p.fixup_format = "ChainedFixups"
    THEN CheckedAdd(p.image_base, TargetMask(raw_ptr), checks)
    ELSE Ok(raw_ptr)

RECURSIVE FindSectionLast(_, _, _)
\* a lookup that searches back to front (rfind)
FindSectionLast(sections, va, checks) ==
    IF sections = <<>> THEN Err("Virtual address not found in any section")
    ELSE LET s == sections[Len(sections)]
             inside == InSection(va, s, checks)
         IN  IF inside.kind = "panic" THEN inside
             ELSE IF inside.val THEN Translate(va, s, checks)
             ELSE FindSectionLast(SubSeq(sections, 1, Len(sections) - 1), va, checks)

RECURSIVE FindSection(_, _, _)
\* sections.iter().find(..).map(..).ok_or_else(..), front to back
FindSection(sections, va, checks) ==
    IF sections = <<>> THEN Err("Virtual address not found in any section")
    ELSE LET s == Head(sections)
             inside == InSection(va, s, checks)
         IN  IF inside.kind = "panic" THEN inside
             ELSE IF inside.val THEN Translate(va, s, checks)
             ELSE FindSection(Tail(sections), va, checks)

va_to_file_offset(p, va, checks) == FindSection(p.sections, va, checks)

MachOResolvePointer(p, raw_ptr, checks) ==
    LET va == decode_pointer(p, raw_ptr, checks)
    IN  IF va.kind = "panic" THEN va
        ELSE va_to_file_offset(p, va.val, checks)

MachOScanRange(p) ==
    IF Len(p.sections) = 0 THEN Err("No sections found for scanning")
    ELSE LET section == p.sections[Len(p.sections)]
         IN  Ok(ScanRange(section.file_offset, section.size))

-----------------------------------------------------------------------------
(* binary/mod.rs: the BinaryParser trait and create_parser                 *)

resolve_pointer(p, raw_ptr, checks) ==
    IF p.format = "PE" THEN PeResolvePointer(p, raw_ptr, checks)
    ELSE MachOResolvePointer(p, raw_ptr, checks)

scan_range(p) == IF p.format = "PE" THEN PeScanRange(p) ELSE MachOScanRange(p)

create_parser(o) ==
    IF o.format = "Pe" THEN PeParserNew(collect_pe_sections(o))
    ELSE IF o.format = "MachO" THEN MachOParserNew(o, collect_macho_sections(o))
    ELSE Err("Unsupported binary format")

-----------------------------------------------------------------------------
(* dumper.rs                                                               *)

ASSET_HEADER_SIZE == 32

InitialStep == 8

\* the u64 stored little-endian in the 8 bytes at offset o
ReadU64(m, o) ==
    <<m[o + 1] + 256 * m[o + 2], m[o + 3] + 256 * m[o + 4],
      m[o + 5] + 256 * m[o + 6], m[o + 7] + 256 * m[o + 8]>>

Slice(m, o, len) == SubSeq(m, o + 1, o + len)

\* The cast of the chunk to &AssetHeader is undefined behaviour at an offset
\* that is not a multiple of align_of::<AssetHeader>() = 8 (the map itself is
\* page-aligned): a build with debug assertions panics there, and one without
\* reads the unaligned fields.
read_header(m, o, checks) ==
    IF o + ASSET_HEADER_SIZE > Len(m) THEN Err("Header offset out of bounds")
    ELSE IF o % 8 # 0 /\ checks THEN Panic("misaligned pointer dereference")
    ELSE Ok([name_ptr |-> ReadU64(m, o), name_len |-> ReadU64(m, o + 8),
             data_ptr |-> ReadU64(m, o + 16), data_size |-> ReadU64(m, o + 24)])

\* brotli streams: the empty stream, and "hello" as one uncompressed meta-block
EmptyStream == <<6>>

HelloStream == <<11, 2, 128, 104, 101, 108, 108, 111, 3>>

\* brotli::Decompressor + read_to_end, on the streams the model's files hold;
\* any other byte string of those files is not a complete brotli stream
BrotliDecode(data) ==
    IF data = EmptyStream THEN Ok(<<>>)
    ELSE IF data = HelloStream THEN Ok(<<104, 101, 108, 108, 111>>)
    ELSE Err("Invalid brotli data")

verify_brotli(data) ==
    IF BrotliDecode(data).kind = "ok" THEN Ok(TRUE) ELSE Err("Invalid brotli data")

\* `&m[start..start + len]` and `m[start]` are checked by the language: a
\* range that does not lie in the file is never read, the index panics (a
\* start + len past 2^64 panics as an overflow or wraps below start, and the
\* index panics all the same)
InFile(m, start, len) ==
    LET end == AddCarry(start, len)
    IN  end.carry = 0 /\ U64Le(end.val, U64Of(Len(m)))

IndexFault == "range end index out of range for slice"

\* a bounds check whose additions wrap instead of saturating
validate_pointersWrapping(m, name_offset, name_len, data_offset, data_size) ==
    LET len == U64Of(Len(m))
    IN  IF \/ U64Le(len, name_offset)
           \/ U64Lt(len, AddCarry(name_offset, name_len).val)
           \/ U64Le(len, data_offset)
           \/ U64Lt(len, AddCarry(data_offset, data_size).val)
        THEN Err("Pointer out of file bounds")
        ELSE IF ~InFile(m, name_offset, U64Of(1)) THEN Panic(IndexFault)
        ELSE IF m[ToNat(name_offset) + 1] # 47
        THEN Err("Invalid asset name format")
        ELSE IF ~InFile(m, data_offset, data_size) THEN Panic(IndexFault)
        ELSE verify_brotli(Slice(m, ToNat(data_offset), ToNat(data_size)))

validate_pointers(m, name_offset, name_len, data_offset, data_size) ==
    LET len == U64Of(Len(m))
    IN  IF \/ U64Le(len, name_offset)
           \/ U64Lt(len, SaturatingAdd(name_offset, name_len))
           \/ U64Le(len, data_offset)
           \/ U64Lt(len, SaturatingAdd(data_offset, data_size))
        THEN Err("Pointer out of file bounds")
        ELSE IF ~InFile(m, name_offset, U64Of(1)) THEN Panic(IndexFault)
        ELSE IF m[ToNat(name_offset) + 1] # 47
        THEN Err("Invalid asset name format")
        ELSE IF ~InFile(m, data_offset, data_size) THEN Panic(IndexFault)
        ELSE verify_brotli(Slice(m, ToNat(data_offset), ToNat(data_size)))

\* o and len are the u64 values cast to usize
read_name(m, o, len) ==
    LET bytes == Slice(m, ToNat(o), ToNat(len))
    IN  IF ~InFile(m, o, len) THEN Panic(IndexFault)
        ELSE IF \E i \in DOMAIN bytes : bytes[i] >= 128
        THEN Err("Asset name contains non-ASCII characters")
        ELSE Ok(bytes)

read_data(m, o, len) ==
    IF ~InFile(m, o, len) THEN Panic(IndexFault)
    ELSE Ok(Slice(m, ToNat(o), ToNat(len)))

\* try_parse_asset from validate_pointers on, the header and the two resolved
\* offsets being values already computed
ParsePointers(m, header, name_offset, data_offset) ==
    LET valid == validate_pointers(m, name_offset, header.name_len,
                                   data_offset, header.data_size)
        name == read_name(m, name_offset, header.name_len)
        data == read_data(m, data_offset, header.data_size)
    IN  IF valid.kind # "ok" THEN valid
        ELSE IF name.kind # "ok" THEN name
        ELSE IF data.kind # "ok" THEN data
        ELSE Ok([name |-> name.val, data |-> data.val])

\* the three `let .. = ..?` of the code are evaluated once each and their
\* values handed on
try_parse_asset(m, p, o, checks) ==
    LET header == read_header(m, o, checks)
        name_offset == resolve_pointer(p, header.val.name_ptr, checks)
        data_offset == resolve_pointer(p, header.val.data_ptr, checks)
    IN  IF header.kind # "ok" THEN header
        ELSE IF name_offset.kind # "ok" THEN name_offset
        ELSE IF data_offset.kind # "ok" THEN data_offset
        ELSE CHOOSE r \in {ParsePointers(m, h, n.val, d.val) :
                              h \in {header.val}, n \in {name_offset},
                              d \in {data_offset}} : TRUE

\* a step that falls back to the initial alignment after a rejected candidate
StepAfterReset(s, parsed) ==
    IF parsed.kind = "ok" THEN ASSET_HEADER_SIZE ELSE InitialStep

\* `step = ASSET_HEADER_SIZE` inside the `if let Ok(asset)`
StepAfter(s, parsed) == IF parsed.kind = "ok" THEN ASSET_HEADER_SIZE ELSE s

\* a window cut down to the file instead of the assertion
ScanEndTruncated(m, range) ==
    LET end == SaturatingAdd(range.start, range.length)
    IN  IF U64Lt(U64Of(Len(m)), end) THEN Ok(U64Of(Len(m))) ELSE Ok(end)

\* end = start.saturating_add(length); assert!(end <= self.mmap.len(), ..)
ScanEnd(m, range) ==
    LET end == SaturatingAdd(range.start, range.length)
    IN  IF U64Lt(U64Of(Len(m)), end)
        THEN Panic("Scan range exceeds file bounds")
        ELSE Ok(end)

decompress_asset(asset) == BrotliDecode(asset.data)

-----------------------------------------------------------------------------
(* main.rs: paths are sequences of components, a component a byte string   *)

RootDir == <<47>>

CurDir == <<46>>

ParentDir == <<46, 46>>

\* args.output, already normalized: "out"
OutputDir == <<<<111, 117, 116>>>>

RECURSIVE Components(_, _)
\* Path::components of the bytes after a possible leading '/'
Components(bytes, cur) ==
    IF bytes = <<>> THEN (IF cur = <<>> THEN <<>> ELSE <<cur>>)
    ELSE IF Head(bytes) = 47
    THEN (IF cur = <<>> THEN <<>> ELSE <<cur>>) \o Components(Tail(bytes), <<>>)
    ELSE Components(Tail(bytes), Append(cur, Head(bytes)))

\* Path::join: an absolute argument replaces the base
Join(base, bytes) ==
    IF bytes # <<>> /\ bytes[1] = 47
    THEN <<RootDir>> \o Components(bytes, <<>>)
    ELSE base \o Components(bytes, <<>>)

RECURSIVE NormalizeFrom(_, _)
\* NormalizePath::normalize: "." is dropped, ".." pops (never past the root)
NormalizeFrom(ret, comps) ==
    IF comps = <<>> THEN ret
    ELSE LET c == Head(comps)
         IN  IF c = CurDir THEN NormalizeFrom(ret, Tail(comps))
             ELSE IF c = ParentDir
             THEN NormalizeFrom(IF ret = <<>> \/ ret = <<RootDir>> THEN ret
                                ELSE SubSeq(ret, 1, Len(ret) - 1), Tail(comps))
             ELSE NormalizeFrom(Append(ret, c), Tail(comps))

Normalize(comps) == NormalizeFrom(<<>>, comps)

StartsWith(path, base) ==
    Len(path) >= Len(base) /\ SubSeq(path, 1, Len(base)) = base

HasNul(path) == \E i \in DOMAIN path : \E k \in DOMAIN path[i] : path[i][k] = 0

IoOutcomes == {"ok", "create_dir_all fails", "write fails"}

\* one turn of main's for loop that skips an asset it cannot dump
DumpOneSkipping(asset, io) ==
    LET decompressed == decompress_asset(asset)
        path == Normalize(Join(OutputDir, Tail(asset.name)))
    IN  IF decompressed.kind # "ok" THEN Ok(<<>>)
        ELSE IF asset.name = <<>> THEN Ok(<<>>)
        ELSE IF ~StartsWith(path, OutputDir) THEN Ok(<<>>)
        ELSE IF io # "ok" \/ HasNul(path) THEN Ok(<<>>)
        ELSE Ok(<<[path |-> path, data |-> decompressed.val]>>)

\* one turn of main's for loop: the files it adds, or the error that ends main
DumpOne(asset, io) ==
    LET decompressed == decompress_asset(asset)
        path == Normalize(Join(OutputDir, Tail(asset.name)))
    IN  IF decompressed.kind # "ok" THEN Err("decompression failed")
        ELSE IF asset.name = <<>> THEN Panic("byte index 1 is out of bounds")
        ELSE IF ~StartsWith(path, OutputDir) THEN Err("Path traversal found")
        ELSE IF io = "create_dir_all fails" THEN Err(io)
        ELSE IF io = "write fails" \/ HasNul(path)
        THEN Err("write fails")
        ELSE Ok(<<[path |-> path, data |-> decompressed.val]>>)

-----------------------------------------------------------------------------
(* Inputs: what the object reader can report of a file                     *)

MaxObjSections == 2

SeqsUpTo(S, n) == UNION {[1..k -> S] : k \in 0..n}

ObjSection(segment, name, kind, address, file_range, size) ==
    [segment |-> segment, name |-> name, kind |-> kind, address |-> address,
     file_range |-> file_range, size |-> size]

\* 0x140001000 and 0x140002000: an image base of 0x140000000 plus the section's RVA
PeVa1 == <<4096, 16384, 1, 0>>

PeVa2 == <<8192, 16384, 1, 0>>

\* 2^64 - 16: an image base at the top of the address space
HighVa == <<Limb - 16, Limb - 1, Limb - 1, Limb - 1>>

\* a section of zero size has no file range
PeSectionChoices ==
    { ObjSection("", ".rdata", "ReadOnlyData", PeVa1, <<U64Of(1024)>>, U64Of(64)),
      ObjSection("", ".rdata", "ReadOnlyData", PeVa2, <<U64Of(2048)>>, U64Of(32)),
      ObjSection("", ".rdata", "ReadOnlyData", HighVa, <<U64Of(1024)>>, U64Of(64)),
      ObjSection("", ".rdata", "ReadOnlyData", PeVa1, <<>>, U64Zero),
      ObjSection("", ".rdata", "Data", PeVa1, <<U64Of(1024)>>, U64Of(64)),
      ObjSection("", ".text", "Text", PeVa2, <<U64Of(512)>>, U64Of(64)) }

\* 0x100004000, 0x100004020 (inside the range of the former) and 0x100008000
MachoVa1 == <<16384, 0, 1, 0>>

MachoVa2 == <<16416, 0, 1, 0>>

MachoVa3 == <<32768, 0, 1, 0>>

MachoSectionChoices ==
    { ObjSection("__TEXT", "__const", "ReadOnlyData", MachoVa1, <<U64Of(16384)>>, U64Of(64)),
      ObjSection("__DATA_CONST", "__const", "ReadOnlyData", MachoVa2, <<U64Of(32768)>>, U64Of(64)),
      ObjSection("__DATA", "__const", "Data", MachoVa3, <<U64Of(49152)>>, U64Of(32)),
      ObjSection("__DATA_CONST", "__const", "ReadOnlyData", HighVa, <<U64Of(32768)>>, U64Of(64)),
      ObjSection("__TEXT", "__text", "Text", MachoVa3, <<U64Of(1024)>>, U64Of(64)),
      ObjSection("__DATA", "__bss", "UninitializedData", MachoVa3, <<>>, U64Of(64)) }

Segment(segname, vmaddr) ==
    [cmd |-> "LC_SEGMENT_64", segname |-> segname, vmaddr |-> vmaddr]

ChainedFixupsCmd ==
    [cmd |-> "LC_DYLD_CHAINED_FIXUPS", segname |-> "", vmaddr |-> U64Zero]

DyldInfoCmd == [cmd |-> "LC_DYLD_INFO_ONLY", segname |-> "", vmaddr |-> U64Zero]

\* 2^64 - 2^42: a __TEXT vmaddr that a 43-bit offset can carry past 2^64
HighBase == <<0, 0, Limb - 1024, Limb - 1>>

CommandChoices ==
    { <<DyldInfoCmd>>,
      <<Segment(SegText, DefaultImageBase), DyldInfoCmd>>,
      <<ChainedFixupsCmd>>,
      <<Segment("__PAGEZERO", U64Zero), Segment(SegText, DefaultImageBase),
        ChainedFixupsCmd>>,
      <<Segment(SegText, U64Zero), ChainedFixupsCmd, Segment("__DATA", MachoVa3)>>,
      <<Segment(SegText, HighBase), ChainedFixupsCmd>> }

ParserObjects ==
    {[format |-> "Pe", sections |-> s, commands |-> <<>>] :
        s \in SeqsUpTo(PeSectionChoices, MaxObjSections)}
    \cup
    {[format |-> "MachO", sections |-> s, commands |-> c] :
        s \in SeqsUpTo(MachoSectionChoices, MaxObjSections), c \in CommandChoices}
    \cup
    {[format |-> "Elf", sections |-> <<>>, commands |-> <<>>],
     [format |-> "Unknown", sections |-> <<>>, commands |-> <<>>]}

\* raw values handed to resolve_pointer: the ends of the ranges above, and
\* chained-fixup values carrying metadata in the bits above bit 42
RawPointers ==
    { U64Zero, U64Max, HighVa,
      PeVa1, <<4095, 16384, 1, 0>>, <<4096 + 63, 16384, 1, 0>>, <<4096 + 64, 16384, 1, 0>>,
      PeVa2,
      MachoVa1, MachoVa2, <<16384 + 63, 0, 1, 0>>, <<16416 + 63, 0, 1, 0>>,
      <<16384 + 96, 0, 1, 0>>, MachoVa3,
      <<16384, 0, 0, 0>>, <<16416, 0, 2048, 32784>>, <<16416, 0, 1, 0>>,
      <<Limb - 1, Limb - 1, 2047, 16>>, <<0, 0, 1024, 0>> }

-----------------------------------------------------------------------------
(* Dumper::new and a direct call of resolve_pointer                        *)

\* Dumper::new: Mmap::map, then binary::create_parser(&mmap)?
CreateParser ==
    /\ pc = "new"
    /\ LET r == create_parser(obj)
       IN  IF r.kind = "ok"
           THEN /\ parser' = r.val
                /\ pc' = "ready"
                /\ fault' = "none"
           ELSE /\ parser' = NoParser
                /\ pc' = "failed"
                /\ fault' = r.why
    /\ UNCHANGED <<obj, mmap, debug_build, offset, step, scan_end, assets,
                   probed, dumped, written, query, answer>>

\* BinaryParser::resolve_pointer(raw_ptr), a pure function of the parser
ResolveCall ==
    /\ pc = "ready"
    /\ \E raw_ptr \in RawPointers :
          /\ query' = raw_ptr
          /\ answer' = resolve_pointer(parser, raw_ptr, debug_build)
    /\ pc' = "resolved"
    /\ UNCHANGED <<obj, mmap, debug_build, parser, fault, offset, step, scan_end,
                   assets, probed, dumped, written>>

InitParser ==
    /\ obj \in ParserObjects
    /\ mmap = <<>>
    /\ debug_build \in BOOLEAN
    /\ parser = NoParser
    /\ pc = "new"
    /\ fault = "none"
    /\ offset = 0
    /\ step = 0
    /\ scan_end = 0
    /\ assets = <<>>
    /\ probed = <<>>
    /\ dumped = 0
    /\ written = <<>>
    /\ query = U64Zero
    /\ answer = NoAnswer

NextParser == CreateParser \/ ResolveCall

SpecParser == InitParser /\ [][NextParser]_vars

-----------------------------------------------------------------------------
(* Inputs: files.  A file is a container header (base bytes), a 32-byte     *)
(* blob of names and brotli streams, then the table: 32-byte AssetHeader    *)
(* records and 8-byte filler words.                                         *)

MaxItems == 2

\* blob offsets: 0 "/a", 2 "/\0", 4 "/" 0xC8, 6 "xy", 8 "/../a", 13 the empty
\* stream, 14 the hello stream, 23 a lone 0 byte, 24 "/b"
Blob ==
    <<47, 97, 47, 0, 47, 200, 120, 121, 47, 46, 46, 47, 97>> \o EmptyStream
    \o HelloStream \o <<0, 47, 98, 0, 0, 0, 0, 0, 0>>

Zeros(n) == [i \in 1..n |-> 0]

U64Bytes(u) ==
    <<u[1] % 256, u[1] \div 256, u[2] % 256, u[2] \div 256,
      u[3] % 256, u[3] \div 256, u[4] % 256, u[4] \div 256>>

ItemKinds ==
    {"fill", "a", "b", "empty", "nul", "trav", "nonascii", "noslash",
     "baddata", "oob", "badptr"}

FileKinds == {"PE", "Traditional", "Chained", "ChainedHigh"}

\* virtual address of the blob's section, and of the table's (Mach-O)
BlobVa(kind) ==
    IF kind = "PE" THEN PeVa1
    ELSE IF kind = "ChainedHigh" THEN <<16384, 0, Limb - 1024, Limb - 1>>
    ELSE MachoVa1

TableVa(kind) ==
    IF kind = "ChainedHigh" THEN <<32768, 0, Limb - 1024, Limb - 1>> ELSE MachoVa3

\* the raw pointer a linker stores for blob offset o: the virtual address, or
\* (chained fixups) the offset from the image base under metadata bits
RawPtr(kind, o) ==
    IF kind \in {"Chained", "ChainedHigh"} THEN <<16384 + o, 0, 2048, 32784>>
    ELSE AddCarry(BlobVa(kind), U64Of(o)).val

HeaderBytes(name_ptr, name_len, data_ptr, data_size) ==
    U64Bytes(name_ptr) \o U64Bytes(name_len) \o U64Bytes(data_ptr) \o U64Bytes(data_size)

HeaderAt(kind, name_o, name_len, data_o, data_size) ==
    HeaderBytes(RawPtr(kind, name_o), U64Of(name_len),
                RawPtr(kind, data_o), U64Of(data_size))

ItemBytes(kind, item) ==
    CASE item = "fill" -> Zeros(8)
      [] item = "a" -> HeaderAt(kind, 0, 2, 14, 9)
      [] item = "b" -> HeaderAt(kind, 24, 2, 13, 1)
      [] item = "empty" -> HeaderAt(kind, 0, 0, 14, 9)
      [] item = "nul" -> HeaderAt(kind, 2, 2, 13, 1)
      [] item = "trav" -> HeaderAt(kind, 8, 5, 14, 9)
      [] item = "nonascii" -> HeaderAt(kind, 4, 2, 13, 1)
      [] item = "noslash" -> HeaderAt(kind, 6, 2, 13, 1)
      [] item = "baddata" -> HeaderAt(kind, 0, 2, 23, 1)
      [] item = "oob" -> HeaderBytes(RawPtr(kind, 0), U64Max, RawPtr(kind, 13), U64Of(1))
      [] item = "badptr" -> HeaderBytes(U64Max, U64Of(2), RawPtr(kind, 13), U64Of(1))

RECURSIVE TableBytes(_, _)
TableBytes(kind, items) ==
    IF items = <<>> THEN <<>>
    ELSE ItemBytes(kind, Head(items)) \o TableBytes(kind, Tail(items))

FileOf(sc) == Zeros(sc.base) \o Blob \o TableBytes(sc.kind, sc.items)

\* the size a section header declares for `actual` bytes of the file
Declared(actual, extra) ==
    IF extra = "huge" THEN U64Max
    ELSE IF extra = "over" THEN U64Of(actual + 8)
    ELSE U64Of(actual)

ObjOf(sc) ==
    LET table == Len(TableBytes(sc.kind, sc.items))
    IN  IF sc.kind = "PE"
        THEN [format |-> "Pe",
              sections |->
                <<ObjSection("", ".text", "Text", PeVa2, <<U64Of(0)>>, U64Of(sc.base)),
                  ObjSection("", ".rdata", "ReadOnlyData", PeVa1, <<U64Of(sc.base)>>,
                             Declared(Len(Blob) + table, sc.extra))>>,
              commands |-> <<>>]
        ELSE [format |-> "MachO",
              sections |->
                <<ObjSection("__TEXT", "__text", "Text", DefaultImageBase,
                             <<U64Of(0)>>, U64Of(sc.base)),
                  ObjSection("__TEXT", "__const", "ReadOnlyData", BlobVa(sc.kind),
                             <<U64Of(sc.base)>>, U64Of(Len(Blob))),
                  ObjSection("__DATA_CONST", "__const", "ReadOnlyData", TableVa(sc.kind),
                             <<U64Of(sc.base + Len(Blob))>>, Declared(table, sc.extra))>>,
              commands |->
                IF sc.kind = "Traditional"
                THEN <<Segment(SegText, DefaultImageBase), DyldInfoCmd>>
                ELSE IF sc.kind = "Chained"
                THEN <<Segment(SegText, DefaultImageBase), ChainedFixupsCmd>>
                ELSE <<Segment(SegText, HighBase), ChainedFixupsCmd>>]

Scenario(kind, base, items, extra) ==
    [kind |-> kind, base |-> base, items |-> items, extra |-> extra]

Tables == SeqsUpTo(ItemKinds, MaxItems)

\* well-formed files of each kind; files whose table is not 8-byte aligned;
\* files whose section header declares more bytes than the file holds
Scenarios ==
    {Scenario(k, 8, w, "none") : k \in FileKinds, w \in Tables}
    \cup {Scenario("Chained", 12, w, "none") : w \in Tables}
    \cup {Scenario(k, 8, w, e) :
            k \in {"PE", "Traditional"}, w \in Tables, e \in {"over", "huge"}}

\* files the parsers reject: no supported container, no .rdata, no __const
Rejected ==
    {[format |-> "Unknown", sections |-> <<>>, commands |-> <<>>],
     [format |-> "Elf", sections |-> <<>>, commands |-> <<>>],
     [format |-> "Pe",
      sections |-> <<ObjSection("", ".text", "Text", PeVa2, <<U64Of(0)>>, U64Of(8))>>,
      commands |-> <<>>],
     [format |-> "MachO",
      sections |-> <<ObjSection("__TEXT", "__text", "Text", DefaultImageBase,
                                <<U64Of(0)>>, U64Of(8))>>,
      commands |-> <<Segment(SegText, DefaultImageBase)>>]}

-----------------------------------------------------------------------------
(* Dumper::scan_assets and main                                            *)

\* scan_assets up to the loop: scan_range()?, end, the assertion
ScanBegin ==
    /\ pc = "ready"
    /\ LET range == scan_range(parser)
           end == ScanEnd(mmap, range.val)
       IN  IF range.kind # "ok"
           THEN /\ pc' = "failed"
                /\ fault' = range.why
                /\ UNCHANGED <<offset, step, scan_end>>
           ELSE IF end.kind # "ok"
           THEN /\ pc' = "panicked"
                /\ fault' = end.why
                /\ UNCHANGED <<offset, step, scan_end>>
           ELSE /\ pc' = "scanning"
                /\ fault' = "none"
                /\ offset' = ToNat(range.val.start)
                /\ step' = InitialStep
                /\ scan_end' = ToNat(end.val)
    /\ assets' = <<>>
    /\ probed' = <<>>
    /\ UNCHANGED <<obj, mmap, debug_build, parser, dumped, written, query, answer>>

\* one turn of the while loop
ScanStep ==
    /\ pc = "scanning"
    /\ offset + ASSET_HEADER_SIZE <= scan_end
    /\ LET parsed == try_parse_asset(mmap, parser, offset, debug_build)
       IN  IF parsed.kind = "panic"
           THEN /\ pc' = "panicked"
                /\ fault' = parsed.why
                /\ UNCHANGED <<offset, step, assets>>
           ELSE /\ pc' = "scanning"
                /\ fault' = IF parsed.kind = "ok" THEN "none" ELSE parsed.why
                /\ assets' = IF parsed.kind = "ok" THEN Append(assets, parsed.val)
                             ELSE assets
                /\ step' = StepAfter(step, parsed)
                /\ offset' = offset + step'
    /\ probed' = Append(probed, offset)
    /\ UNCHANGED <<obj, mmap, debug_build, parser, scan_end, dumped, written,
                   query, answer>>

\* the loop condition fails: Ok(assets)
ScanReturn ==
    /\ pc = "scanning"
    /\ ~(offset + ASSET_HEADER_SIZE <= scan_end)
    /\ pc' = "scanned"
    /\ fault' = "none"
    /\ UNCHANGED <<obj, mmap, debug_build, parser, offset, step, scan_end, assets,
                   probed, dumped, written, query, answer>>

\* main after scan_assets()?: no assets is an error
MainAfterScan ==
    /\ pc = "scanned"
    /\ IF assets = <<>>
       THEN pc' = "failed" /\ fault' = "No assets found"
       ELSE pc' = "dumping" /\ fault' = "none"
    /\ UNCHANGED <<obj, mmap, debug_build, parser, offset, step, scan_end, assets,
                   probed, dumped, written, query, answer>>

\* one turn of main's for loop
DumpAsset ==
    /\ pc = "dumping"
    /\ dumped < Len(assets)
    /\ \E io \in IoOutcomes :
          LET r == DumpOne(assets[dumped + 1], io)
          IN  IF r.kind = "ok"
              THEN /\ written' = written \o r.val
                   /\ dumped' = dumped + 1
                   /\ pc' = "dumping"
                   /\ fault' = "none"
              ELSE /\ pc' = IF r.kind = "panic" THEN "panicked" ELSE "failed"
                   /\ fault' = r.why
                   /\ UNCHANGED <<written, dumped>>
    /\ UNCHANGED <<obj, mmap, debug_build, parser, offset, step, scan_end, assets,
                   probed, query, answer>>

\* the for loop is over: "Done :)"
MainDone ==
    /\ pc = "dumping"
    /\ dumped = Len(assets)
    /\ pc' = "done"
    /\ UNCHANGED <<obj, mmap, debug_build, parser, fault, offset, step, scan_end,
                   assets, probed, dumped, written, query, answer>>

Init ==
    /\ \/ \E sc \in Scenarios : obj = ObjOf(sc) /\ mmap = FileOf(sc)
       \/ obj \in Rejected /\ mmap = Zeros(8)
    /\ debug_build \in BOOLEAN
    /\ parser = NoParser
    /\ pc = "new"
    /\ fault = "none"
    /\ offset = 0
    /\ step = 0
    /\ scan_end = 0
    /\ assets = <<>>
    /\ probed = <<>>
    /\ dumped = 0
    /\ written = <<>>
    /\ query = U64Zero
    /\ answer = NoAnswer

Next ==
    \/ CreateParser
    \/ ScanBegin
    \/ ScanStep
    \/ ScanReturn
    \/ MainAfterScan
    \/ DumpAsset
    \/ MainDone

Spec == Init /\ [][Next]_vars

-----------------------------------------------------------------------------
(* The scan and the dump: the properties                                   *)

\* C1: every Asset scan_assets returns has a name whose first character is
\* '/', headers of name_len 0 included.
C1_LeadingSlash ==
    pc = "scanned" =>
        \A i \in DOMAIN assets :
            assets[i].name # <<>> /\ assets[i].name[1] = 47

\* C2: no Asset scan_assets returns has a 0x00 byte anywhere in its name.
C2_NoNulByte ==
    pc = "scanned" =>
        \A i \in DOMAIN assets :
            \A k \in DOMAIN assets[i].name : assets[i].name[k] # 0

\* C3: every advance of the scan is by 8 bytes while no candidate has
\* validated and by 32 bytes from the first validation on (the advance right
\* after it included); once the stride is 32 it never goes back to 8.
C3_Stride ==
    [][(pc = "scanning" /\ pc' = "scanning") =>
          /\ offset' - offset = (IF assets' = <<>> THEN 8 ELSE 32)
          /\ step' = offset' - offset
          /\ (step = 32 => step' = 32)]_vars

\* C3 witness: the scan probed at the 8-byte stride, a candidate validated,
\* and a later candidate was rejected with the stride still 32.
C3_Witness ==
    /\ pc = "scanning"
    /\ assets # <<>>
    /\ fault # "none"
    /\ step = 32
    /\ Len(probed) >= 3
    /\ probed[2] - probed[1] = 8
    /\ offset - probed[Len(probed)] = 32

\* start + length over the integers exceeds the file length
RangeExceedsFile ==
    /\ parser # NoParser
    /\ scan_range(parser).kind = "ok"
    /\ LET range == scan_range(parser).val
           sum == AddCarry(range.start, range.length)
       IN  sum.carry = 1 \/ U64Lt(U64Of(Len(mmap)), sum.val)

\* C4: a scan window ending past the file aborts scan_assets at once: no
\* offset is probed, no Asset is produced, the window is not cut to the file.
C4_AbortOnRange ==
    (RangeExceedsFile /\ pc \notin {"new", "ready"}) =>
        /\ pc = "panicked"
        /\ fault = "Scan range exceeds file bounds"
        /\ probed = <<>>
        /\ assets = <<>>
        /\ written = <<>>

\* C4 witness: the scan of a file shorter than its section header declares
\* has aborted.
C4_Witness == RangeExceedsFile /\ pc = "panicked" /\ probed = <<>>

\* C5: a candidate whose header was read and that then fails (a pointer that
\* does not resolve, a region out of the file, a name not starting with '/',
\* a non-ASCII name, data that is no brotli stream) is rejected without an
\* error reaching the caller: the asset list is unchanged, the scan advances
\* by the current stride and goes on.
C5_RejectedQuietly ==
    [][(/\ pc = "scanning"
        /\ offset + 32 <= scan_end
        /\ read_header(mmap, offset, debug_build).kind = "ok"
        /\ try_parse_asset(mmap, parser, offset, debug_build).kind # "ok") =>
          /\ pc' = "scanning"
          /\ assets' = assets
          /\ offset' = offset + step]_vars

\* C10 as stated: a run writes every scanned asset or none; a fatal condition
\* on the k-th asset leaves no earlier asset written.
C10_AllOrNothing ==
    /\ pc \in {"failed", "panicked"} => written = <<>>
    /\ pc = "done" => Len(written) = Len(assets)

\* C10 amended: the run aborts at the first fatal condition; the assets before
\* it, in scan order, have been written (decompressed) and stay written, the
\* failing asset and those after it are not written; a run that ends without
\* a fatal condition has written every scanned asset.
C10_PrefixWritten ==
    /\ Len(written) = dumped
    /\ dumped <= Len(assets)
    /\ \A i \in 1..Len(written) :
          /\ i <= Len(assets)
          /\ written[i].data = BrotliDecode(assets[i].data).val
    /\ pc = "done" => dumped = Len(assets)
    /\ (pc \in {"failed", "panicked"} /\ assets # <<>>) => dumped < Len(assets)

\* C10 witness: the run failed on its second asset with the first one written.
C10_Witness ==
    /\ pc = "failed"
    /\ dumped = 1
    /\ Len(written) = 1
    /\ Len(assets) = 2

\* the first offset of the scan window, and what a probe of offset o gives
WindowStart == ToNat(scan_range(parser).val.start)

Parsed(o) == try_parse_asset(mmap, parser, o, debug_build)

\* the window holds n headers that validate, 32 bytes apart from offset h on,
\* h a multiple of 8 bytes from the window start, and no offset the scan
\* probes before h validates
BackToBack(h, n) ==
    /\ h >= WindowStart
    /\ (h - WindowStart) % InitialStep = 0
    /\ h + ASSET_HEADER_SIZE * n <= scan_end
    /\ \A i \in 0..(n - 1) : Parsed(h + ASSET_HEADER_SIZE * i).kind = "ok"
    /\ \A o \in WindowStart..(h - 1) :
          (o - WindowStart) % InitialStep = 0 => Parsed(o).kind # "ok"

\* the first n assets are those of the headers at h, h+32, .., in that order
ReturnedFirst(found, h, n) ==
    /\ Len(found) >= n
    /\ \A i \in 1..n : found[i] = Parsed(h + ASSET_HEADER_SIZE * (i - 1)).val

\* C11: a scan of a window that holds N >= 1 valid headers back-to-back from
\* an offset h (a multiple of 8 from the window start, nothing validating
\* before it) returns, and what it returns starts with exactly those N
\* headers' assets in increasing offset order.
C11_BackToBack ==
    [][pc = "scanning" =>
          \A h \in WindowStart..scan_end : \A n \in 1..MaxItems :
              BackToBack(h, n) =>
                  /\ pc' # "panicked"
                  /\ pc' = "scanned" => ReturnedFirst(assets', h, n)]_vars

\* C11, of the scans that return: the same N assets come first.
C11_OnReturn ==
    pc = "scanned" =>
        \A h \in WindowStart..scan_end : \A n \in 1..MaxItems :
            BackToBack(h, n) => ReturnedFirst(assets, h, n)

ByteRange(start, len) == [start |-> start, len |-> len]

\* the byte ranges try_parse_asset(o) indexes the file with, in the order of
\* the code: the header chunk unless read_header returned early; the first
\* name byte once the bounds check of validate_pointers let the header
\* through; the data slice handed to verify_brotli once that byte was '/';
\* the name and data regions of read_name and read_data once validation
\* succeeded
Reads(o) ==
    LET header == read_header(mmap, o, debug_build)
        name_offset == resolve_pointer(parser, header.val.name_ptr, debug_build)
        data_offset == resolve_pointer(parser, header.val.data_ptr, debug_build)
        name_len == header.val.name_len
        data_size == header.val.data_size
        valid == validate_pointers(mmap, name_offset.val, name_len,
                                   data_offset.val, data_size)
        first == {ByteRange(name_offset.val, U64Of(1))}
        region == {ByteRange(name_offset.val, name_len)}
        slice == {ByteRange(data_offset.val, data_size)}
    IN  IF header.kind = "err" THEN {}
        ELSE {ByteRange(U64Of(o), U64Of(ASSET_HEADER_SIZE))} \cup
             IF header.kind # "ok" \/ name_offset.kind # "ok" \/ data_offset.kind # "ok"
             THEN {}
             ELSE IF valid = Err("Pointer out of file bounds") THEN {}
             ELSE IF valid = Err("Invalid asset name format") THEN first
             ELSE IF valid.kind # "ok" THEN first \cup slice
             ELSE first \cup slice \cup region

\* C12: in a scan whose window passed the end <= file length assertion, every
\* byte range indexed (the 32-byte header of each probed offset, the first
\* name byte, the name region, the data region) lies inside the file, so no
\* index is ever out of range, whatever name_len and data_size a header holds.
C12_ReadsInFile ==
    /\ fault # IndexFault
    /\ \A k \in DOMAIN probed :
          \A r \in Reads(probed[k]) : InFile(mmap, r.start, r.len)

\* C12 witness: the scan returned after it probed a header whose pointers
\* resolve and whose name_len is 2^64 - 1.
C12_Witness ==
    /\ pc = "scanned"
    /\ \E k \in DOMAIN probed :
          LET header == read_header(mmap, probed[k], debug_build)
          IN  /\ header.kind = "ok"
              /\ header.val.name_len = U64Max
              /\ resolve_pointer(parser, header.val.name_ptr, debug_build).kind = "ok"
              /\ resolve_pointer(parser, header.val.data_ptr, debug_build).kind = "ok"
              /\ Reads(probed[k]) # {}

-----------------------------------------------------------------------------
(* Pointer resolution and parser construction: the properties              *)

\* s.virtual_address <= p < s.virtual_address + s.size, over the integers
Contains(s, p) ==
    /\ U64Le(s.virtual_address, p)
    /\ LET e == AddCarry(s.virtual_address, s.size)
       IN  e.carry = 1 \/ U64Lt(p, e.val)

\* p - s.virtual_address + s.file_offset, over the integers
Image(s, p) == AddCarry(U64Sub(p, s.virtual_address), s.file_offset)

Resolved(fmt) == pc = "resolved" /\ parser.format = fmt

\* C6: a PE resolve(raw) returns raw - va + file_offset exactly when raw lies
\* in [va, va+size) of the .rdata section, and an error for every other raw.
C6_PeResolveExact ==
    Resolved("PE") =>
        LET s == parser.sections[1]
        IN  IF Contains(s, query)
            THEN Image(s, query).carry = 0 /\ answer = Ok(Image(s, query).val)
            ELSE answer.kind = "err"

Traditional == Resolved("MachO") /\ parser.fixup_format = "Traditional"

Fits(s, p) ==
    /\ AddCarry(s.virtual_address, s.size).carry = 0
    /\ Image(s, p).carry = 0

FirstContaining(i) ==
    /\ Contains(parser.sections[i], query)
    /\ \A j \in 1..(i - 1) : ~Contains(parser.sections[j], query)

C8_DecodeIsSum ==
    (Resolved("MachO") /\ parser.fixup_format = "ChainedFixups") =>
        LET sum == AddCarry(parser.image_base, TargetMask(query))
        IN  /\ sum.carry = 0
            /\ decode_pointer(parser, query, debug_build) = Ok(sum.val)

RdataSections ==
    {i \in DOMAIN obj.sections :
        obj.sections[i].name = ".rdata" /\ obj.sections[i].kind = "ReadOnlyData"}

PeConstructed == obj.format = "Pe" /\ pc # "new" /\ parser # NoParser

\* C9 as stated: construction succeeds only with exactly one read-only-data
\* section named .rdata, of non-zero size.
C9_ExactlyOneNonEmpty ==
    PeConstructed =>
        /\ Cardinality(RdataSections) = 1
        /\ \A i \in RdataSections : obj.sections[i].size # U64Zero

RdataWithRange == {i \in RdataSections : obj.sections[i].file_range # <<>>}

\* C9 amended: construction fails exactly when no read-only-data section named
\* .rdata with a file range exists; with one or more it succeeds, and the first
\* of them is the section the parser resolves against and scans.
C9_AtLeastOne ==
    (obj.format = "Pe" /\ pc # "new") =>
        /\ (parser = NoParser) <=> (RdataWithRange = {})
        /\ parser # NoParser =>
              \E i \in RdataWithRange :
                  /\ \A j \in RdataWithRange : i <= j
                  /\ parser.sections[1] =
                        SectionInfo(obj.sections[i].address,
                                    obj.sections[i].file_range[1],
                                    obj.sections[i].size)
                  /\ scan_range(parser) =
                        Ok(ScanRange(obj.sections[i].file_range[1],
                                     obj.sections[i].size))

\* C9 witness: a parser was constructed from a file with two .rdata sections.
C9_Witness == PeConstructed /\ Cardinality(RdataWithRange) >= 2

====
